---- MODULE Spec2Model ----
(***************************************************************************)
(* A model of IESModel (src/ies_simulation.py): the network that           *)
(* build_model instantiates from a configuration record and a device       *)
(* selection, the constraints that solve() adds for the heat-pump          *)
(* families, and the backend retry loop of solve().                        *)
(*                                                                         *)
(* Python values are represented as follows.                               *)
(*   - An optional value (a dictionary key that may be absent, the         *)
(*     argument components that may be None) is a sequence of length 0     *)
(*     (absent / None) or 1 (the value).                                   *)
(*   - A component table of the network (n.buses, n.links, ...) is a       *)
(*     function from component names to records of attributes.             *)
(*   - The configuration record has every key the program reads; a key     *)
(*     the dictionary lacks holds None. A series is a sequence of numbers, *)
(*     and element t+1 of it belongs to snapshot t.                        *)
(***************************************************************************)
EXTENDS Integers, Sequences, FiniteSets, TLC

VARIABLES
    data,        \* self.data: the configuration record
    components,  \* the argument of build_model: None or a list of identifiers
    n,           \* self.n: the network
    pc,          \* where the run stands
    exc,         \* the exception that ended build_model, if one did
    i,           \* solve(): index in Solvers of the next named backend
    success,     \* solve(): the local variable success
    attempts,    \* the calls of n.optimize made so far, with their outcomes
    m,           \* the constraints extra_functionality added in the last attempt
    sol,         \* the accepted assignment, seen at one family and one snapshot
    printed,     \* the failure messages solve() printed
    ret          \* the value solve() returned

vars == <<data, components, n, pc, exc, i, success, attempts, m, sol, printed, ret>>

---------------------------------------------------------------------------
(* Bounds *)

\* the value a configuration record gives a heat pump's capacity, besides 0
PNomCfg == 1
\* flows of an assignment range over 0..MaxFlow
MaxFlow == 1
\* the snapshots are 0..Hours-1
Hours == 1

---------------------------------------------------------------------------
(* Program constants *)

(* A power, an energy or a demand is an integer. An efficiency is held in   *)
(* hundredths, a cost in ten-thousandths, an availability in millionths:    *)
(* Unit holds what 1.0 is in each of the three scales.                      *)
Unit == [efficiency |-> 100, cost |-> 10000, pu |-> 1000000]

\* data.get('hours', 24)
DefaultHours == 24
\* data.get('pv_p_nom', 100)
DefaultPvPNom == 100
\* data.get('pv_cost', 0.01), in ten-thousandths
DefaultPvCost == 100
\* data.get('boiler_p_nom', 20)
DefaultBoilerPNom == 20
\* data.get('boiler_eff', 0.98), in hundredths
DefaultBoilerEff == 98
\* data.get(f'{prefix}_p_nom', 40)
DefaultHpPNom == 40
\* data.get(f'{prefix}_eff', 3.0), in hundredths
DefaultHpEff == 300
\* data.get(f'{prefix}_eer', 3.5), in hundredths
DefaultHpEer == 350
\* data.get('ely_p_nom', 50)
DefaultElyPNom == 50
\* data.get('ely_eff', 0.75), in hundredths
DefaultElyEff == 75
\* data.get('fc_p_nom', 50)
DefaultFcPNom == 50
\* data.get('fc_eff_elec', 0.45), in hundredths
DefaultFcEffElec == 45
\* data.get('fc_eff_heat', 0.40), in hundredths
DefaultFcEffHeat == 40
\* data.get('bat_p_nom', 30)
DefaultBatPNom == 30
\* data.get('bat_hours', 4)
DefaultBatHours == 4
\* data.get('bat_eff_store', 0.9), in hundredths
DefaultBatEffStore == 90
\* data.get('bat_eff_dispatch', 0.9), in hundredths
DefaultBatEffDispatch == 90
\* the battery's marginal_cost=0.01, in ten-thousandths
BatteryMarginalCost == 100
\* data.get('h2s_p_nom', 100)
DefaultH2sPNom == 100
\* data.get('h2s_hours', 20)
DefaultH2sHours == 20
\* the hydrogen storage's efficiency_store=0.98, in hundredths
H2sEffStore == 98
\* the hydrogen storage's efficiency_dispatch=0.98, in hundredths
H2sEffDispatch == 98
\* the hydrogen storage's marginal_cost=0.005, in ten-thousandths
H2sMarginalCost == 50

Devices ==
    {"grid", "pv", "electric_boiler", "ashp", "gshp_shallow", "gshp_deep",
     "electrolyzer", "fuel_cell", "battery", "h2_storage"}

\* the list all_devices takes when components is None
DefaultDevices ==
    {"electric_boiler", "ashp", "gshp_shallow", "gshp_deep", "electrolyzer",
     "fuel_cell", "battery", "h2_storage"}

\* the keys of hp_types, which are also the prefixes extra_functionality walks
HpPrefixes == {"ashp", "gshp_shallow", "gshp_deep"}

\* f"{prefix}_heating"
HeatingName(prefix) ==
    CASE prefix = "ashp" -> "ashp_heating"
      [] prefix = "gshp_shallow" -> "gshp_shallow_heating"
      [] prefix = "gshp_deep" -> "gshp_deep_heating"

\* f"{prefix}_cooling"
CoolingName(prefix) ==
    CASE prefix = "ashp" -> "ashp_cooling"
      [] prefix = "gshp_shallow" -> "gshp_shallow_cooling"
      [] prefix = "gshp_deep" -> "gshp_deep_cooling"

\* f'{prefix}_p_nom'
PNomKey(prefix) ==
    CASE prefix = "ashp" -> "ashp_p_nom"
      [] prefix = "gshp_shallow" -> "gshp_shallow_p_nom"
      [] prefix = "gshp_deep" -> "gshp_deep_p_nom"

\* f'{prefix}_eff'
EffKey(prefix) ==
    CASE prefix = "ashp" -> "ashp_eff"
      [] prefix = "gshp_shallow" -> "gshp_shallow_eff"
      [] prefix = "gshp_deep" -> "gshp_deep_eff"

\* f'{prefix}_eer'
EerKey(prefix) ==
    CASE prefix = "ashp" -> "ashp_eer"
      [] prefix = "gshp_shallow" -> "gshp_shallow_eer"
      [] prefix = "gshp_deep" -> "gshp_deep_eer"

---------------------------------------------------------------------------
(* Optional values and dictionaries *)

None == << >>
Some(v) == <<v>>
IsNone(o) == o = << >>

\* key in data
HasKey(d, k) == ~IsNone(d[k])

\* data.get(k, default)
DataGet(d, k, default) == IF IsNone(d[k]) THEN default ELSE d[k][1]

\* the keys build_model and __init__ read in the configuration record
Keys ==
    {"hours", "elec_load", "heat_load", "cool_load", "h2_load", "pv_pu",
     "grid_cost", "pv_p_nom", "pv_cost", "boiler_p_nom", "boiler_eff",
     "ashp_p_nom", "ashp_eff", "ashp_eer",
     "gshp_shallow_p_nom", "gshp_shallow_eff", "gshp_shallow_eer",
     "gshp_deep_p_nom", "gshp_deep_eff", "gshp_deep_eer",
     "ely_p_nom", "ely_eff", "fc_p_nom", "fc_eff_elec", "fc_eff_heat",
     "bat_p_nom", "bat_hours", "bat_eff_store", "bat_eff_dispatch",
     "h2s_p_nom", "h2s_hours"}

---------------------------------------------------------------------------
(* n.add *)

EmptyTable == << >>

\* n.add(kind, name, **attrs) on the table of that kind
Add(tbl, name, attrs) ==
    [x \in (DOMAIN tbl) \cup {name} |-> IF x = name THEN attrs ELSE tbl[x]]

\* self.hours = data.get('hours', 24)
HoursOf(d) == DataGet(d, "hours", DefaultHours)

\* IESModel.__init__: an empty network over the snapshots range(self.hours)
NewNetwork(d) ==
    [snapshots |-> 0 .. (HoursOf(d) - 1),
     buses |-> EmptyTable, generators |-> EmptyTable, loads |-> EmptyTable,
     links |-> EmptyTable, storage_units |-> EmptyTable]

\* a scalar attribute holds at every snapshot
Static(net, v) == [t \in 1 .. Cardinality(net.snapshots) |-> v]

(* What n.add does with a series attribute that is None, or whose length is *)
(* not the number of snapshots, is the library's doing, and the source pins *)
(* no version of the library: it stores what it is given, or it raises.     *)
LibraryBehaviours == {"lenient", "strict"}

\* v is an optional series: None, or Some of a list of numbers
Malformed(net, v) == IsNone(v) \/ Len(v[1]) # Cardinality(net.snapshots)

Rejects(lib, net, v) == lib = "strict" /\ Malformed(net, v)

(* build_model is a sequence of steps over the network; a step that raises  *)
(* ends it, and leaves the network as the steps before it made it.          *)
Started(net) == [net |-> net, exc |-> None]

Raised(s) == ~IsNone(s.exc)

Raise(s, e) == [s EXCEPT !.exc = Some(e)]

AddTo(s, kind, name, attrs) == [s EXCEPT !.net[kind] = Add(@, name, attrs)]

---------------------------------------------------------------------------
(* build_model *)

\* d in components, which an omitted selection never satisfies
GeneratorWantedListed(c, d) == ~IsNone(c) /\ d \in c[1]

\* components is None or d in components
GeneratorWanted(c, d) == IsNone(c) \/ d \in c[1]

\* all_devices
AllDevices(c) == IF IsNone(c) THEN DefaultDevices ELSE c[1]

\* step 1: the four buses
BuildBuses ==
    [electricity |-> [carrier |-> "AC"],
     heat |-> [carrier |-> "heat"],
     cooling |-> [carrier |-> "cooling"],
     hydrogen |-> [carrier |-> "H2"]]

(* n.add("Generator", "grid", ...): no p_nom is given, so the library's 0   *)
(* stands, with p_max_pu 1.0; the capacity is left to the optimizer; the    *)
(* cost is whatever data.get('grid_cost') returns, None included.           *)
GridGenerator(net, d) ==
    [bus |-> "electricity", p_nom |-> 0, p_nom_extendable |-> TRUE,
     p_max_pu |-> Static(net, Unit.pu), marginal_cost |-> d["grid_cost"]]

\* a pv generator whose capacity is left to the optimizer too
PvGeneratorExtendable(net, d) ==
    [bus |-> "electricity", p_nom |-> DataGet(d, "pv_p_nom", DefaultPvPNom),
     p_nom_extendable |-> TRUE, p_max_pu |-> d["pv_pu"][1],
     marginal_cost |-> Some(Static(net, DataGet(d, "pv_cost", DefaultPvCost)))]

\* n.add("Generator", "pv", ...)
PvGenerator(net, d) ==
    [bus |-> "electricity", p_nom |-> DataGet(d, "pv_p_nom", DefaultPvPNom),
     p_nom_extendable |-> FALSE, p_max_pu |-> d["pv_pu"][1],
     marginal_cost |-> Some(Static(net, DataGet(d, "pv_cost", DefaultPvCost)))]

\* step 2: grid and pv
BuildGenerators(s, d, c, lib) ==
    LET g1 == IF ~GeneratorWanted(c, "grid") THEN s
              ELSE IF Rejects(lib, s.net, d["grid_cost"]) THEN Raise(s, "library")
              ELSE AddTo(s, "generators", "grid", GridGenerator(s.net, d))
        g2 == IF Raised(g1) \/ ~GeneratorWanted(c, "pv") THEN g1
              ELSE IF ~HasKey(d, "pv_pu") THEN Raise(g1, "KeyError")
              ELSE IF Rejects(lib, g1.net, d["pv_pu"]) THEN Raise(g1, "library")
              ELSE AddTo(g1, "generators", "pv", PvGenerator(g1.net, d))
    IN  g2

\* a hydrogen load that is never added, supplied or not
H2LoadNever(d) == FALSE

\* 'h2_load' in self.data
H2LoadSupplied(d) == HasKey(d, "h2_load")

\* n.add("Load", name, bus=bus, p_set=self.data[name])
AddLoad(s, d, name, bus, lib) ==
    IF Raised(s) THEN s
    ELSE IF ~HasKey(d, name) THEN Raise(s, "KeyError")
    ELSE IF Rejects(lib, s.net, d[name]) THEN Raise(s, "library")
    ELSE AddTo(s, "loads", name, [bus |-> bus, p_set |-> d[name][1]])

\* the loads
BuildLoads(s, d, lib) ==
    LET l1 == AddLoad(s, d, "elec_load", "electricity", lib)
        l2 == AddLoad(l1, d, "heat_load", "heat", lib)
        l3 == AddLoad(l2, d, "cool_load", "cooling", lib)
        l4 == IF H2LoadSupplied(d) THEN AddLoad(l3, d, "h2_load", "hydrogen", lib) ELSE l3
    IN  l4

ElectricBoilerLink(d) ==
    [bus0 |-> "electricity", bus1 |-> "heat",
     p_nom |-> DataGet(d, "boiler_p_nom", DefaultBoilerPNom), p_nom_extendable |-> FALSE,
     efficiency |-> DataGet(d, "boiler_eff", DefaultBoilerEff)]

\* the p_nom given to f"{prefix}_heating"
HeatingPNom(d, prefix) == DataGet(d, PNomKey(prefix), DefaultHpPNom)

\* the p_nom given to f"{prefix}_cooling": a copy that reads one family's key
CoolingPNomOfAshp(d, prefix) == DataGet(d, PNomKey("ashp"), DefaultHpPNom)

\* the p_nom given to f"{prefix}_cooling"
CoolingPNom(d, prefix) == DataGet(d, PNomKey(prefix), DefaultHpPNom)

HeatingLink(d, prefix) ==
    [bus0 |-> "electricity", bus1 |-> "heat",
     p_nom |-> HeatingPNom(d, prefix), p_nom_extendable |-> FALSE,
     efficiency |-> DataGet(d, EffKey(prefix), DefaultHpEff)]

CoolingLink(d, prefix) ==
    [bus0 |-> "electricity", bus1 |-> "cooling",
     p_nom |-> CoolingPNom(d, prefix), p_nom_extendable |-> FALSE,
     efficiency |-> DataGet(d, EerKey(prefix), DefaultHpEer)]

\* one pass of the loop over hp_types
AddHeatPump(tbl, d, devs, prefix) ==
    IF prefix \in devs
    THEN Add(Add(tbl, HeatingName(prefix), HeatingLink(d, prefix)),
             CoolingName(prefix), CoolingLink(d, prefix))
    ELSE tbl

\* an electrolyzer that delivers to the electricity bus it draws from
ElectrolyzerLinkLooped(d) ==
    [bus0 |-> "electricity", bus1 |-> "electricity",
     p_nom |-> DataGet(d, "ely_p_nom", DefaultElyPNom), p_nom_extendable |-> FALSE,
     efficiency |-> DataGet(d, "ely_eff", DefaultElyEff)]

ElectrolyzerLink(d) ==
    [bus0 |-> "electricity", bus1 |-> "hydrogen",
     p_nom |-> DataGet(d, "ely_p_nom", DefaultElyPNom), p_nom_extendable |-> FALSE,
     efficiency |-> DataGet(d, "ely_eff", DefaultElyEff)]

\* a fuel cell whose two outputs are exchanged
FuelCellLinkSwapped(d) ==
    [bus0 |-> "hydrogen", bus1 |-> "heat", bus2 |-> "electricity",
     p_nom |-> DataGet(d, "fc_p_nom", DefaultFcPNom), p_nom_extendable |-> FALSE,
     efficiency |-> DataGet(d, "fc_eff_elec", DefaultFcEffElec),
     efficiency2 |-> DataGet(d, "fc_eff_heat", DefaultFcEffHeat)]

FuelCellLink(d) ==
    [bus0 |-> "hydrogen", bus1 |-> "electricity", bus2 |-> "heat",
     p_nom |-> DataGet(d, "fc_p_nom", DefaultFcPNom), p_nom_extendable |-> FALSE,
     efficiency |-> DataGet(d, "fc_eff_elec", DefaultFcEffElec),
     efficiency2 |-> DataGet(d, "fc_eff_heat", DefaultFcEffHeat)]

\* step 3: the links
BuildLinks(s, d, c) ==
    LET devs == AllDevices(c)
        k1 == IF "electric_boiler" \in devs
              THEN Add(EmptyTable, "electric_boiler", ElectricBoilerLink(d))
              ELSE EmptyTable
        k2 == AddHeatPump(k1, d, devs, "ashp")
        k3 == AddHeatPump(k2, d, devs, "gshp_shallow")
        k4 == AddHeatPump(k3, d, devs, "gshp_deep")
        k5 == IF "electrolyzer" \in devs THEN Add(k4, "electrolyzer", ElectrolyzerLink(d)) ELSE k4
        k6 == IF "fuel_cell" \in devs THEN Add(k5, "fuel_cell", FuelCellLink(d)) ELSE k5
    IN  IF Raised(s) THEN s ELSE [s EXCEPT !.net.links = k6]

\* a battery whose state of charge starts from its initial value and ends free
BatteryUnitAcyclic(d) ==
    [bus |-> "electricity",
     p_nom |-> DataGet(d, "bat_p_nom", DefaultBatPNom), p_nom_extendable |-> FALSE,
     max_hours |-> DataGet(d, "bat_hours", DefaultBatHours),
     efficiency_store |-> DataGet(d, "bat_eff_store", DefaultBatEffStore),
     efficiency_dispatch |-> DataGet(d, "bat_eff_dispatch", DefaultBatEffDispatch),
     cyclic_state_of_charge |-> FALSE, marginal_cost |-> BatteryMarginalCost]

\* n.add("StorageUnit", "battery", ...)
BatteryUnit(d) ==
    [bus |-> "electricity",
     p_nom |-> DataGet(d, "bat_p_nom", DefaultBatPNom), p_nom_extendable |-> FALSE,
     max_hours |-> DataGet(d, "bat_hours", DefaultBatHours),
     efficiency_store |-> DataGet(d, "bat_eff_store", DefaultBatEffStore),
     efficiency_dispatch |-> DataGet(d, "bat_eff_dispatch", DefaultBatEffDispatch),
     cyclic_state_of_charge |-> TRUE, marginal_cost |-> BatteryMarginalCost]

\* n.add("StorageUnit", "h2_storage", ...)
H2StorageUnit(d) ==
    [bus |-> "hydrogen",
     p_nom |-> DataGet(d, "h2s_p_nom", DefaultH2sPNom), p_nom_extendable |-> FALSE,
     max_hours |-> DataGet(d, "h2s_hours", DefaultH2sHours),
     efficiency_store |-> H2sEffStore,
     efficiency_dispatch |-> H2sEffDispatch,
     cyclic_state_of_charge |-> TRUE, marginal_cost |-> H2sMarginalCost]

\* step 3: the storage units
BuildStorageUnits(s, d, c) ==
    LET devs == AllDevices(c)
        s1 == IF "battery" \in devs
              THEN Add(EmptyTable, "battery", BatteryUnit(d))
              ELSE EmptyTable
        s2 == IF "h2_storage" \in devs
              THEN Add(s1, "h2_storage", H2StorageUnit(d))
              ELSE s1
    IN  IF Raised(s) THEN s ELSE [s EXCEPT !.net.storage_units = s2]

(* build_model: the network it leaves in self.n, and the exception that     *)
(* ended it, if one did                                                     *)
BuildNetwork(net, d, c, lib) ==
    LET b1 == Started([net EXCEPT !.buses = BuildBuses])
        b2 == BuildGenerators(b1, d, c, lib)
        b3 == BuildLoads(b2, d, lib)
        b4 == BuildLinks(b3, d, c)
        b5 == BuildStorageUnits(b4, d, c)
    IN  b5

---------------------------------------------------------------------------
(* solve: extra_functionality *)

\* "Link-p" in n.model.variables: the variable exists when the network has links
HasLinkP(net) == DOMAIN net.links # {}

\* heating_name in n.links.index and cooling_name in n.links.index
FamilyPresent(net, prefix) ==
    /\ HeatingName(prefix) \in DOMAIN net.links
    /\ CoolingName(prefix) \in DOMAIN net.links

\* p_nom = n.links.at[heating_name, "p_nom"]
SharedPNom(net, prefix) == net.links[HeatingName(prefix)].p_nom

(* A constraint over the variables of one family at one snapshot t, in the  *)
(* form  heat * p0_heat[t] + cool * p0_cool[t] + z * mode[t] <= rhs.        *)

\* p0_heat + p0_cool >= p_nom: a family that must run at its capacity
CapacitySharingFloor(prefix, t, p_nom) ==
    [name |-> "capacity_sharing", prefix |-> prefix, t |-> t,
     heat |-> 0 - 1, cool |-> 0 - 1, z |-> 0, rhs |-> 0 - p_nom]

\* p0_heat + p0_cool <= p_nom
CapacitySharing(prefix, t, p_nom) ==
    [name |-> "capacity_sharing", prefix |-> prefix, t |-> t,
     heat |-> 1, cool |-> 1, z |-> 0, rhs |-> p_nom]

\* p0_heat - z * p_nom <= 0
HeatingExclusion(prefix, t, p_nom) ==
    [name |-> "heating_exclusion", prefix |-> prefix, t |-> t,
     heat |-> 1, cool |-> 0, z |-> 0 - p_nom, rhs |-> 0]

\* p0_cool - z * p_nom <= 0: the cooling link bounded by the heating mode
CoolingExclusionSameMode(prefix, t, p_nom) ==
    [name |-> "cooling_exclusion", prefix |-> prefix, t |-> t,
     heat |-> 0, cool |-> 1, z |-> 0 - p_nom, rhs |-> 0]

\* p0_cool - (1 - z) * p_nom <= 0, that is p0_cool + z * p_nom <= p_nom
CoolingExclusion(prefix, t, p_nom) ==
    [name |-> "cooling_exclusion", prefix |-> prefix, t |-> t,
     heat |-> 0, cool |-> 1, z |-> p_nom, rhs |-> p_nom]

\* what one pass of the loop over the prefixes adds
FamilyConstraints(net, prefix) ==
    IF FamilyPresent(net, prefix)
    THEN UNION {{CapacitySharing(prefix, t, SharedPNom(net, prefix)),
                 HeatingExclusion(prefix, t, SharedPNom(net, prefix)),
                 CoolingExclusion(prefix, t, SharedPNom(net, prefix))}
                : t \in net.snapshots}
    ELSE {}

\* a mode variable for every prefix, whether its links exist or not
FamilyBinariesUnguarded(net, prefix) ==
    {[name |-> "mode", prefix |-> prefix, t |-> t] : t \in net.snapshots}

\* n.model.add_variables(coords=[snapshots], name=f"{prefix}_mode", binary=True)
FamilyBinaries(net, prefix) ==
    IF FamilyPresent(net, prefix)
    THEN {[name |-> "mode", prefix |-> prefix, t |-> t] : t \in net.snapshots}
    ELSE {}

\* the variables and constraints extra_functionality adds to n.model
ExtraFunctionality(net) ==
    IF ~HasLinkP(net)
    THEN [binaries |-> {}, constraints |-> {}]
    ELSE [binaries |-> UNION {FamilyBinaries(net, prefix) : prefix \in HpPrefixes},
          constraints |-> UNION {FamilyConstraints(net, prefix) : prefix \in HpPrefixes}]

---------------------------------------------------------------------------
(* The assignment a backend returns *)

(* The values an assignment gives to the variables of one family at one     *)
(* snapshot: the input flows of the two links, which are non-negative, and  *)
(* the binary mode.                                                         *)
Points(mm) ==
    {[prefix |-> b.prefix, t |-> b.t, p_heat |-> ph, p_cool |-> pk, z |-> zz] :
        b \in mm.binaries, ph \in 0 .. MaxFlow, pk \in 0 .. MaxFlow, zz \in {0, 1}}

Satisfies(a, con) ==
    con.heat * a.p_heat + con.cool * a.p_cool + con.z * a.z <= con.rhs

(* Every constraint of extra_functionality mentions the variables of one    *)
(* family at one snapshot only, so an assignment satisfies them all exactly *)
(* when each of its points satisfies the constraints of its family and      *)
(* snapshot. The balance and device constraints that PyPSA adds itself      *)
(* restrict the assignments further, and decide whether a backend finds one *)
(* at all: they are left to the outcome of the attempt here, and written    *)
(* out under n.optimize below.                                              *)
FeasiblePoints(mm) ==
    {a \in Points(mm) :
        \A con \in mm.constraints :
            (con.prefix = a.prefix /\ con.t = a.t) => Satisfies(a, con)}

\* what is seen of the solution: nothing, or one point of it
Solutions(mm) ==
    IF mm.binaries = {} THEN {None} ELSE {Some(a) : a \in FeasiblePoints(mm)}

---------------------------------------------------------------------------
(* n.optimize: the problem the library formulates for the network *)

(* A dispatch gives every snapshot a point: the output g of each generator, *)
(* the input flow p of each link, the mode z of each heat-pump family, and  *)
(* the charge (store), discharge (dispatch) and state of charge (soc) of    *)
(* each storage unit. A dispatch is a sequence of points, the point of      *)
(* snapshot t at index t + 1. Flows and levels range over 0 .. MaxFlow.     *)

\* the sum of the values of a function with a finite domain
RECURSIVE Sum(_)
Sum(f) ==
    IF DOMAIN f = {} THEN 0
    ELSE LET x == CHOOSE y \in DOMAIN f : TRUE
         IN  f[x] + Sum([y \in (DOMAIN f) \ {x} |-> f[y]])

\* the components of a table that name the bus b in the attribute a
On(tbl, a, b) == {x \in DOMAIN tbl : a \in DOMAIN tbl[x] /\ tbl[x][a] = b}

\* the families that have a mode variable at snapshot t
Modes(mm, t) == {b.prefix : b \in {bb \in mm.binaries : bb.t = t}}

(* The bounds of the variables: a generator whose capacity is fixed yields  *)
(* at most p_nom * p_max_pu[t], and one whose capacity is extendable has no *)
(* bound but the capacity the optimizer gives it, at no cost; a link draws  *)
(* at most p_nom; a storage unit charges and discharges at most p_nom, and  *)
(* holds at most p_nom * max_hours.                                         *)
GeneratorBounds(net, t, x) ==
    \A g \in DOMAIN net.generators :
        net.generators[g].p_nom_extendable
            \/ x.g[g] * Unit.pu <= net.generators[g].p_nom * net.generators[g].p_max_pu[t + 1]

LinkBounds(net, x) == \A l \in DOMAIN net.links : x.p[l] <= net.links[l].p_nom

StorageBounds(net, x) ==
    \A u \in DOMAIN net.storage_units :
        /\ x.store[u] <= net.storage_units[u].p_nom
        /\ x.dispatch[u] <= net.storage_units[u].p_nom
        /\ x.soc[u] <= net.storage_units[u].p_nom * net.storage_units[u].max_hours

\* the constraints extra_functionality added for snapshot t
ModesRespected(mm, t, x) ==
    \A con \in mm.constraints :
        con.t = t =>
            Satisfies([p_heat |-> x.p[HeatingName(con.prefix)],
                       p_cool |-> x.p[CoolingName(con.prefix)],
                       z |-> x.z[con.prefix]], con)

\* what the components of the network deliver to bus b, in hundredths
Injection(net, b, t, x) ==
    Unit.efficiency * Sum([g \in On(net.generators, "bus", b) |-> x.g[g]])
        + Sum([l \in On(net.links, "bus1", b) |-> net.links[l].efficiency * x.p[l]])
        + Sum([l \in On(net.links, "bus2", b) |-> net.links[l].efficiency2 * x.p[l]])
        + Unit.efficiency * Sum([u \in On(net.storage_units, "bus", b) |-> x.dispatch[u]])

\* what the components of the network draw from bus b, in hundredths
Withdrawal(net, b, t, x) ==
    Unit.efficiency * Sum([l \in On(net.loads, "bus", b) |-> net.loads[l].p_set[t + 1]])
        + Unit.efficiency * Sum([l \in On(net.links, "bus0", b) |-> x.p[l]])
        + Unit.efficiency * Sum([u \in On(net.storage_units, "bus", b) |-> x.store[u]])

\* the nodal balance of the buses B
Balanced(net, B, t, x) ==
    \A b \in B : Injection(net, b, t, x) = Withdrawal(net, b, t, x)

\* the buses that no generator and no storage unit is on: their balance is one of links and loads
LinkBuses(net) ==
    {b \in DOMAIN net.buses :
        On(net.generators, "bus", b) = {} /\ On(net.storage_units, "bus", b) = {}}

\* the flows and modes of snapshot t that satisfy the constraints on them alone
LinkPoints(net, mm, t) ==
    {y \in [p : [DOMAIN net.links -> 0 .. MaxFlow], z : [Modes(mm, t) -> {0, 1}]] :
        LinkBounds(net, y) /\ ModesRespected(mm, t, y) /\ Balanced(net, LinkBuses(net), t, y)}

\* the charges, discharges and levels of the storage units within their bounds
StoragePoints(net) ==
    {s \in [store : [DOMAIN net.storage_units -> 0 .. MaxFlow],
            dispatch : [DOMAIN net.storage_units -> 0 .. MaxFlow],
            soc : [DOMAIN net.storage_units -> 0 .. MaxFlow]] : StorageBounds(net, s)}

\* the outputs of the generators within their bounds
GeneratorPoints(net, t) ==
    {y \in [g : [DOMAIN net.generators -> 0 .. MaxFlow]] : GeneratorBounds(net, t, y)}

\* the points of snapshot t that satisfy the constraints of that snapshot
SnapshotPoints(net, mm, t) ==
    {x \in {[g |-> a.g, p |-> y.p, z |-> y.z,
             store |-> s.store, dispatch |-> s.dispatch, soc |-> s.soc] :
                a \in GeneratorPoints(net, t), y \in LinkPoints(net, mm, t),
                s \in StoragePoints(net)} :
        Balanced(net, (DOMAIN net.buses) \ LinkBuses(net), t, x)}

(* The state of charge of a storage unit after a snapshot:                  *)
(*   soc = before + efficiency_store * store                                *)
(*         - dispatch / efficiency_dispatch,                                *)
(* multiplied through by efficiency_dispatch.                               *)
Follows(unit, before, store, dispatch, soc) ==
    Unit.efficiency * unit.efficiency_dispatch * soc
        = Unit.efficiency * unit.efficiency_dispatch * before
            + unit.efficiency_store * unit.efficiency_dispatch * store
            - Unit.efficiency * Unit.efficiency * dispatch

\* the point x may follow the points xs
Continues(net, xs, x) ==
    xs = << >> \/ \A u \in DOMAIN net.storage_units :
        Follows(net.storage_units[u], xs[Len(xs)].soc[u], x.store[u], x.dispatch[u], x.soc[u])

\* the dispatches of the first k snapshots
RECURSIVE Trajectories(_, _, _)
Trajectories(net, mm, k) ==
    IF k = 0 THEN {<< >>}
    ELSE {Append(w[1], w[2]) :
            w \in {v \in Trajectories(net, mm, k - 1) \X SnapshotPoints(net, mm, k - 1) :
                      Continues(net, v[1], v[2])}}

(* The state of charge before snapshot 0: that after the last snapshot when *)
(* the unit is cyclic, and the library's initial state of charge, 0,        *)
(* otherwise.                                                               *)
SocBefore(unit, xs, u) ==
    IF unit.cyclic_state_of_charge THEN xs[Len(xs)].soc[u] ELSE 0

\* the dispatches that satisfy every constraint
FeasibleDispatches(net, mm) ==
    {xs \in Trajectories(net, mm, Cardinality(net.snapshots)) :
        \A u \in DOMAIN net.storage_units :
            Follows(net.storage_units[u], SocBefore(net.storage_units[u], xs, u),
                    xs[1].store[u], xs[1].dispatch[u], xs[1].soc[u])}

(* The objective: the marginal cost of what the generators yield and of     *)
(* what the storage units discharge; a link has the library's marginal      *)
(* cost, 0, and so has the capacity of an extendable generator.             *)
Cost(net, xs) ==
    Sum([k \in 1 .. Len(xs) |->
            Sum([g \in DOMAIN net.generators |->
                    net.generators[g].marginal_cost[1][k] * xs[k].g[g]])
            + Sum([u \in DOMAIN net.storage_units |->
                    net.storage_units[u].marginal_cost * xs[k].dispatch[u]])])

\* the least of a non-empty finite set of numbers
Least(S) == CHOOSE c \in S : \A d \in S : c <= d

\* the dispatches of least cost
OptimalDispatches(net, F) ==
    LET best == Least({Cost(net, xs) : xs \in F})
    IN  {xs \in F : Cost(net, xs) = best}

---------------------------------------------------------------------------
(* solve: the retry loop *)

\* for solver in ['gurobi', 'copt', 'glpk']
Solvers == <<"gurobi", "copt", "glpk">>

(* The outcome of one call of n.optimize: it returns the status "ok", it    *)
(* returns another status ("warning": infeasible, unbounded, ...), or it    *)
(* raises an Exception.                                                     *)
Outcomes == {"ok", "warning", "raise"}

\* any status that was returned counts
StatusReturned(o) == o # "raise"

\* if status == 'ok'
StatusOk(o) == o = "ok"

\* the default backend is tried whatever the loop found
AlwaysTryDefault(s) == TRUE

\* if not success
TryDefaultNeeded(s) == ~s

\* an exception of the default attempt leaves solve()
DefaultRaiseEscapes == FALSE

\* try: ... except Exception as e: around the default attempt
DefaultRaiseCaught == TRUE

\* the exception handler of the loop prints nothing
NamedRaiseSilent(out, solver) == out

\* print(f"Solver {solver} failed: {e}")
NamedRaisePrints(out, solver) ==
    Append(out, [msg |-> "solver_failed", solver |-> solver])

\* print(f"All optimization attempts failed: {e}")
DefaultRaisePrints(out) ==
    Append(out, [msg |-> "all_failed", solver |-> "default"])

\* what n.optimize leaves in the network: the solution, when the status is ok
Assigned(o, mm) == IF o = "ok" THEN Solutions(mm) ELSE {None}

---------------------------------------------------------------------------
(* Initial states *)

PNomOptions == {None, Some(0), Some(PNomCfg)}

\* a series of Hours equal values
Flat(v) == [t \in 1 .. Hours |-> v]

(* A record over Hours snapshots that supplies every series build_model     *)
(* reads, no demand, a full availability and a unit price, and leaves every *)
(* parameter to its default.                                                *)
BaseRecord ==
    [hours |-> Some(Hours),
     elec_load |-> Some(Flat(0)), heat_load |-> Some(Flat(0)),
     cool_load |-> Some(Flat(0)), h2_load |-> Some(Flat(0)),
     pv_pu |-> Some(Flat(Unit.pu)), grid_cost |-> Some(Flat(Unit.cost))]
        @@ [k \in Keys |-> None]

DataRecords ==
    {[BaseRecord EXCEPT !.h2_load = h, !.ashp_p_nom = a,
                        !.gshp_shallow_p_nom = b, !.gshp_deep_p_nom = c] :
        h \in {None, Some(Flat(0))}, a \in PNomOptions, b \in PNomOptions,
        c \in PNomOptions}

\* a series as a record may hold it: missing, one value per snapshot, or one value too many
SeriesOptions(v) == {None, Some(Flat(v)), Some(Append(Flat(v), v))}

\* records that lack a series build_model reads, or hold one of another length
ConfigRecords ==
    {[BaseRecord EXCEPT !.grid_cost = g, !.pv_pu = p, !.elec_load = e,
                        !.heat_load = h, !.h2_load = x] :
        g \in SeriesOptions(Unit.cost), p \in SeriesOptions(Unit.pu),
        e \in SeriesOptions(0), h \in {None, Some(Flat(0))},
        x \in {Some(Flat(0)), Some(Append(Flat(0), 0))}}

\* the selections of the two generators, and the omitted selection
GeneratorSelections == {None} \cup {Some(S) : S \in SUBSET {"grid", "pv"}}

(* The record input_data of ies_simulation.py. The demands, which no        *)
(* generator reads, are held to the whole unit below them; the keys         *)
(* hp_p_nom, hp_eff and hp_eer, which the program never reads, are left     *)
(* out.                                                                     *)
SimulationRecord ==
    [hours |-> Some(24),
     elec_load |->
         Some(<<43, 43, 43, 43, 43, 43, 55, 56, 55, 54, 54, 54, 54, 54,
             54, 54, 54, 54, 44, 43, 43, 43, 43, 43>>),
     heat_load |->
         Some(<<1600, 1632, 1669, 1714, 1771, 1818, 1858, 2626, 2724,
             2604, 2419, 1991, 1904, 1560, 1996, 1455, 1429, 1666,
             1754, 1626, 1715, 1655, 1496, 1520>>),
     cool_load |->
         Some(<<2, 2, 2, 2, 2, 5, 10, 15, 20, 25, 30, 35, 38, 40, 38,
             35, 30, 25, 20, 15, 10, 5, 2, 2>>),
     h2_load |->
         Some(<<0, 0, 0, 0, 0, 0, 0, 0, 0, 0, 0, 0, 0, 0, 0, 0, 0, 0,
             0, 0, 0, 0, 0, 0>>),
     pv_pu |->
         Some(<<0, 0, 0, 0, 0, 0, 0, 0, 0, 80000000, 200000000,
             391174493, 243068018, 104044050, 22347518, 3000195, 0, 0,
             0, 0, 0, 0, 0, 0>>),
     pv_p_nom |-> Some(1000),
     grid_cost |->
         Some(<<2012, 2012, 2012, 2012, 2012, 2012, 5253, 5253, 5253,
             5253, 5253, 2012, 2012, 2012, 5253, 5253, 8494, 8494,
             8494, 8494, 8494, 8494, 8494, 5253>>),
     ely_eff |-> Some(75),
     fc_eff_elec |-> Some(40),
     fc_eff_heat |-> Some(45),
     bat_p_nom |-> Some(100),
     h2s_p_nom |-> Some(200),
     h2s_hours |-> Some(20)]
        @@ [k \in Keys |-> None]

(* The record input_data of ies_app.py, with every widget of the sidebar at *)
(* the value it starts with (fixed price 0.6, pv 1000, ...); the demands    *)
(* are held to the whole unit below them.                                   *)
AppRecord ==
    [hours |-> Some(24),
     elec_load |->
         Some(<<43, 43, 43, 43, 43, 43, 55, 56, 55, 54, 54, 54, 54, 54,
             54, 54, 54, 54, 44, 43, 43, 43, 43, 43>>),
     heat_load |->
         Some(<<1600, 1632, 1669, 1714, 1771, 1818, 1858, 2626, 2724,
             2605, 2419, 1991, 1904, 1560, 1996, 1455, 1429, 1666,
             1755, 1626, 1715, 1655, 1496, 1520>>),
     cool_load |->
         Some(<<2, 2, 2, 2, 2, 5, 10, 15, 20, 25, 30, 35, 38, 40, 38,
             35, 30, 25, 20, 15, 10, 5, 2, 2>>),
     h2_load |->
         Some(<<0, 0, 0, 0, 0, 0, 0, 0, 0, 0, 0, 0, 0, 0, 0, 0, 0, 0,
             0, 0, 0, 0, 0, 0>>),
     pv_pu |->
         Some(<<0, 0, 0, 0, 0, 0, 0, 0, 0, 200000, 500000, 1000000,
             600000, 250000, 50000, 10000, 0, 0, 0, 0, 0, 0, 0, 0>>),
     pv_p_nom |-> Some(1000),
     grid_cost |->
         Some(<<6000, 6000, 6000, 6000, 6000, 6000, 6000, 6000, 6000,
             6000, 6000, 6000, 6000, 6000, 6000, 6000, 6000, 6000,
             6000, 6000, 6000, 6000, 6000, 6000>>),
     boiler_p_nom |-> Some(2000),
     ashp_p_nom |-> Some(500),
     ashp_eff |-> Some(300),
     ashp_eer |-> Some(350),
     gshp_shallow_p_nom |-> Some(1000),
     gshp_shallow_eff |-> Some(400),
     gshp_shallow_eer |-> Some(450),
     gshp_deep_p_nom |-> Some(500),
     gshp_deep_eff |-> Some(500),
     gshp_deep_eer |-> Some(550),
     ely_p_nom |-> Some(100),
     ely_eff |-> Some(75),
     fc_p_nom |-> Some(100),
     fc_eff_elec |-> Some(40),
     fc_eff_heat |-> Some(45),
     bat_p_nom |-> Some(100),
     bat_hours |-> Some(4),
     h2s_p_nom |-> Some(200),
     h2s_hours |-> Some(20),
     bat_eff_store |-> Some(90),
     bat_eff_dispatch |-> Some(90)]
        @@ [k \in Keys |-> None]

ShippedRecords == {SimulationRecord, AppRecord}

(* Records for the claims about dispatches: a demand of 0 or 1 on the       *)
(* electricity, heat and cooling buses, every capacity at PNomCfg or left   *)
(* to its default, every storage unit holding one hour, and every           *)
(* efficiency the record can set at 1.0, so that whole flows balance.       *)
DispatchRecords ==
    {[BaseRecord EXCEPT
        !.elec_load = Some(Flat(e)), !.heat_load = Some(Flat(h)),
        !.cool_load = Some(Flat(c)),
        !.pv_p_nom = q, !.pv_cost = Some(DefaultPvCost),
        !.boiler_p_nom = q, !.boiler_eff = Some(Unit.efficiency),
        !.ashp_p_nom = q, !.ashp_eff = Some(Unit.efficiency),
        !.ashp_eer = Some(Unit.efficiency),
        !.gshp_shallow_p_nom = q, !.gshp_shallow_eff = Some(Unit.efficiency),
        !.gshp_shallow_eer = Some(Unit.efficiency),
        !.gshp_deep_p_nom = q, !.gshp_deep_eff = Some(Unit.efficiency),
        !.gshp_deep_eer = Some(Unit.efficiency),
        !.ely_p_nom = q, !.ely_eff = Some(Unit.efficiency),
        !.fc_p_nom = q, !.fc_eff_elec = Some(Unit.efficiency),
        !.fc_eff_heat = Some(Unit.efficiency),
        !.bat_p_nom = q, !.bat_hours = Some(1),
        !.bat_eff_store = Some(Unit.efficiency),
        !.bat_eff_dispatch = Some(Unit.efficiency),
        !.h2s_p_nom = q, !.h2s_hours = Some(1)] :
        e \in {0, 1}, h \in {0, 1}, c \in {0, 1}, q \in {None, Some(PNomCfg)}}

\* the selections of at most two devices, and those of the grid with two devices more
SmallSelections ==
    {Some(S) : S \in {T \in SUBSET Devices : Cardinality(T) <= 2}}
        \cup {Some({"grid"} \cup S) :
                 S \in {T \in SUBSET {"pv", "electric_boiler", "ashp", "electrolyzer",
                                      "fuel_cell", "battery"} : Cardinality(T) = 2}}

\* every selection of the ten devices, and the omitted selection
Selections == {None} \cup {Some(S) : S \in SUBSET Devices}

\* the selections of the heat-pump families, with or without the grid
HeatPumpSelections == {None} \cup {Some(S) : S \in SUBSET (HpPrefixes \cup {"grid"})}

Constructed(D, C) ==
    /\ data \in D
    /\ components \in C
    /\ n = NewNetwork(data)
    /\ pc = "constructed"
    /\ exc = None
    /\ i = 1
    /\ success = FALSE
    /\ attempts = << >>
    /\ m = [binaries |-> {}, constraints |-> {}]
    /\ sol = None
    /\ printed = << >>
    /\ ret = None

\* the records that supply a hydrogen-demand series, as both shipped records do
SolveRecords == {d \in DataRecords : HasKey(d, "h2_load")}

Init == Constructed(SolveRecords, HeatPumpSelections)

InitConfig == Constructed(ConfigRecords, GeneratorSelections)

InitShipped == Constructed(ShippedRecords, Selections)

InitDispatch == Constructed(DispatchRecords, SmallSelections)

InitBuild == Constructed(DataRecords, Selections)

---------------------------------------------------------------------------
(* Actions *)

\* model.build_model(components)
BuildModel ==
    /\ pc = "constructed"
    /\ \E lib \in LibraryBehaviours :
        LET built == BuildNetwork(n, data, components, lib)
        IN  /\ n' = built.net
            /\ exc' = built.exc
            /\ pc' = IF Raised(built) THEN "build_raised" ELSE "built"
    /\ UNCHANGED <<data, components, i, success, attempts, m, sol, printed, ret>>

\* model.solve() is called: success = False, and the loop starts
SolveCall ==
    /\ pc = "built"
    /\ success' = FALSE
    /\ i' = 1
    /\ pc' = "loop"
    /\ UNCHANGED <<exc, data, components, n, attempts, m, sol, printed, ret>>

\* one pass of the loop: self.n.optimize(solver_name=solver, ...)
TryNamed ==
    /\ pc = "loop"
    /\ \E o \in Outcomes :
        /\ attempts' = Append(attempts, [solver |-> Solvers[i], outcome |-> o])
        /\ m' = ExtraFunctionality(n)
        /\ sol' \in Assigned(o, ExtraFunctionality(n))
        /\ IF o = "raise"
           THEN /\ printed' = NamedRaisePrints(printed, Solvers[i])
                /\ success' = success
                /\ i' = i + 1
                /\ pc' = IF i = Len(Solvers) THEN "check" ELSE "loop"
           ELSE IF StatusOk(o)
           THEN /\ success' = TRUE
                /\ pc' = "check"
                /\ UNCHANGED <<i, printed>>
           ELSE /\ i' = i + 1
                /\ pc' = IF i = Len(Solvers) THEN "check" ELSE "loop"
                /\ UNCHANGED <<success, printed>>
    /\ UNCHANGED <<exc, data, components, n, ret>>

\* if not success: self.n.optimize(extra_functionality=extra_functionality)
TryDefault ==
    /\ pc = "check"
    /\ TryDefaultNeeded(success)
    /\ \E o \in Outcomes :
        /\ attempts' = Append(attempts, [solver |-> "default", outcome |-> o])
        /\ m' = ExtraFunctionality(n)
        /\ sol' \in Assigned(o, ExtraFunctionality(n))
        /\ IF o = "raise"
           THEN IF DefaultRaiseCaught
                THEN /\ printed' = DefaultRaisePrints(printed)
                     /\ pc' = "return"
                     /\ UNCHANGED success
                ELSE /\ pc' = "raised"
                     /\ UNCHANGED <<success, printed>>
           ELSE /\ success' = TRUE
                /\ pc' = "return"
                /\ UNCHANGED printed
    /\ UNCHANGED <<exc, data, components, n, i, ret>>

\* the loop found a backend: the default attempt is skipped
SkipDefault ==
    /\ pc = "check"
    /\ ~TryDefaultNeeded(success)
    /\ pc' = "return"
    /\ UNCHANGED <<exc, data, components, n, i, success, attempts, m, sol, printed, ret>>

\* return success
Return ==
    /\ pc = "return"
    /\ ret' = Some(success)
    /\ pc' = "returned"
    /\ UNCHANGED <<exc, data, components, n, i, success, attempts, m, sol, printed>>

\* the methods class IESModel defines
IESModelMethods == {"__init__", "build_model", "solve", "plot_results"}

\* model.<name> resolves to a method; otherwise the call raises AttributeError
HasMethod(name) == name \in IESModelMethods

(* The export step of the button handler, taken when solve() returned True: *)
(* all_res = model.get_all_results() inside try / except Exception; the     *)
(* download is offered when the try block completes, and st.error reports   *)
(* the failed export otherwise.                                             *)
Export ==
    /\ pc = "returned"
    /\ ret = Some(TRUE)
    /\ pc' = IF HasMethod("get_all_results") THEN "download_offered" ELSE "export_failed"
    /\ UNCHANGED <<exc, data, components, n, i, success, attempts, m, sol, printed, ret>>

(* A pass of the loop on a backend that is installed and licensed: the      *)
(* status is 'ok', with a dispatch of least cost assigned to the network,   *)
(* when the problem has a feasible dispatch, and it is another status, with *)
(* nothing assigned, when the problem has none.                             *)
Optimize ==
    /\ pc = "loop"
    /\ LET mm == ExtraFunctionality(n)
           F == FeasibleDispatches(n, mm)
           o == IF F = {} THEN "warning" ELSE "ok"
       IN  /\ attempts' = Append(attempts, [solver |-> Solvers[i], outcome |-> o])
           /\ m' = mm
           /\ IF StatusOk(o)
              THEN /\ sol' \in {Some(xs) : xs \in OptimalDispatches(n, F)}
                   /\ success' = TRUE
                   /\ pc' = "check"
                   /\ UNCHANGED i
              ELSE /\ sol' = None
                   /\ i' = i + 1
                   /\ pc' = IF i = Len(Solvers) THEN "check" ELSE "loop"
                   /\ UNCHANGED success
    /\ UNCHANGED <<exc, data, components, n, printed, ret>>

Solve == SolveCall \/ TryNamed \/ TryDefault \/ SkipDefault \/ Return

Next == BuildModel \/ Solve \/ Export

Spec == Init /\ [][Next]_vars

SpecConfig == InitConfig /\ [][Next]_vars

NextDispatch == BuildModel \/ SolveCall \/ Optimize

SpecDispatch == InitDispatch /\ [][NextDispatch]_vars

NextBuild == BuildModel

SpecBuild == InitBuild /\ [][NextBuild]_vars

SpecShipped == InitShipped /\ [][NextBuild]_vars

---------------------------------------------------------------------------
(* Properties of solve() *)

\* the k-th call of n.optimize was made with the k-th named backend
Attempted(k) == k <= Len(attempts) /\ attempts[k].solver = Solvers[k]

\* the k-th named backend was attempted and raised or returned a non-optimal status
Failed(k) == Attempted(k) /\ attempts[k].outcome # "ok"

NamedIndices == 1 .. Len(Solvers)

DefaultAttempts == {k \in 1 .. Len(attempts) : attempts[k].solver = "default"}

LoopOver == pc \in {"check", "return", "returned"}

\* what a value returned by solve() tells about the failed attempts
ReasonsCarried(v) == IF v \in BOOLEAN THEN << >> ELSE v.reasons

\* the messages that the attempts that raised make solve() print, in order
RECURSIVE RaisedMessages(_)
RaisedMessages(as) ==
    IF as = << >> THEN << >>
    ELSE LET rest == RaisedMessages(SubSeq(as, 1, Len(as) - 1))
             last == as[Len(as)]
         IN  IF last.outcome = "raise"
             THEN Append(rest,
                         [msg |-> IF last.solver = "default" THEN "all_failed"
                                  ELSE "solver_failed",
                          solver |-> last.solver])
             ELSE rest

(* C1: solve() reports success only if at least one attempt (a named        *)
(* backend or the default) returned an optimal status; if every attempt     *)
(* raised or returned a non-optimal status, solve() reports failure.        *)
C1_SuccessOnlyIfOptimal ==
    pc = "returned" =>
        (ret = Some(TRUE) <=> \E k \in 1 .. Len(attempts) : attempts[k].outcome = "ok")

(* C2: the named backends are attempted in the order gurobi, copt, glpk;    *)
(* the k-th is attempted only if every earlier one was attempted and raised *)
(* or returned a non-optimal status, and once the loop is over, if and only *)
(* if; no call of n.optimize follows a named attempt that returned optimal, *)
(* so the solution kept is that of the earliest optimal backend.            *)
C2_PriorityOrder ==
    /\ \A k \in 1 .. Len(attempts) :
        attempts[k].solver # "default" =>
            /\ k \in NamedIndices
            /\ attempts[k].solver = Solvers[k]
            /\ \A j \in 1 .. (k - 1) : Failed(j)
    /\ LoopOver =>
        \A k \in NamedIndices : Attempted(k) <=> \A j \in 1 .. (k - 1) : Failed(j)
    /\ \A k \in NamedIndices :
        (Attempted(k) /\ attempts[k].outcome = "ok") => k = Len(attempts)

\* C2: copt was attempted after gurobi raised, returned optimal, and solve() returned
C2_Witness ==
    /\ pc = "returned"
    /\ Len(attempts) = 2
    /\ attempts[1] = [solver |-> "gurobi", outcome |-> "raise"]
    /\ attempts[2] = [solver |-> "copt", outcome |-> "ok"]
    /\ ret = Some(TRUE)

(* C3: the default backend is attempted at most once; when solve() comes to *)
(* its return, it was attempted exactly once if every named backend failed  *)
(* and not at all if a named backend returned optimal; one call of solve()  *)
(* makes at most four attempts.                                             *)
C3_DefaultOnce ==
    /\ Cardinality(DefaultAttempts) <= 1
    /\ Len(attempts) <= Len(Solvers) + 1
    /\ pc \in {"return", "returned"} =>
        /\ (\A k \in NamedIndices : Failed(k)) => Cardinality(DefaultAttempts) = 1
        /\ (\E k \in NamedIndices : Attempted(k) /\ attempts[k].outcome = "ok")
               => DefaultAttempts = {}

\* C3: the three named backends failed, the default was attempted, solve() returned
C3_Witness ==
    /\ pc = "returned"
    /\ Len(attempts) = 4
    /\ \A k \in NamedIndices : Failed(k)
    /\ attempts[4].solver = "default"

(* C4: no exception of a backend leaves solve(): whatever the outcomes of   *)
(* the attempts, the call is never left by an exception, it can always take *)
(* its next step until it has returned, and it returns True or False.       *)
C4_NeverRaises ==
    /\ pc # "raised"
    /\ pc \in {"loop", "check", "return"} => ENABLED Solve
    /\ pc = "returned" => ret \in {Some(TRUE), Some(FALSE)}

\* C4: every attempt raised, the default one too, and solve() returned
C4_Witness ==
    /\ pc = "returned"
    /\ Len(attempts) = 4
    /\ \A k \in 1 .. 4 : attempts[k].outcome = "raise"

C6_HeatPumpExclusive ==
    ~IsNone(sol) =>
        LET a == sol[1]
        IN  /\ FamilyPresent(n, a.prefix)
            /\ a.t \in n.snapshots
            /\ ~(a.p_heat > 0 /\ a.p_cool > 0)
            /\ a.p_heat + a.p_cool <= SharedPNom(n, a.prefix)

\* C6: an accepted assignment runs a heat pump in cooling mode
C6_Witness ==
    /\ ~IsNone(sol)
    /\ sol[1].p_cool > 0
    /\ sol[1].p_heat = 0
    /\ pc = "returned"

---------------------------------------------------------------------------
(* Properties of build_model *)

\* the names of the components build_model gives a device
GeneratorsOf(d) == IF d \in {"grid", "pv"} THEN {d} ELSE {}

LinksOf(d) ==
    IF d \in HpPrefixes THEN {HeatingName(d), CoolingName(d)}
    ELSE IF d \in {"electric_boiler", "electrolyzer", "fuel_cell"} THEN {d}
    ELSE {}

StorageUnitsOf(d) == IF d \in {"battery", "h2_storage"} THEN {d} ELSE {}

\* every component of the device is in the network
Contains(net, d) ==
    /\ GeneratorsOf(d) \subseteq DOMAIN net.generators
    /\ LinksOf(d) \subseteq DOMAIN net.links
    /\ StorageUnitsOf(d) \subseteq DOMAIN net.storage_units

\* no component of the device is in the network
Lacks(net, d) ==
    /\ GeneratorsOf(d) \cap DOMAIN net.generators = {}
    /\ LinksOf(d) \cap DOMAIN net.links = {}
    /\ StorageUnitsOf(d) \cap DOMAIN net.storage_units = {}

\* the buses a component refers to
BusesOf(rec) ==
    {rec[f] : f \in DOMAIN rec \cap {"bus", "bus0", "bus1", "bus2"}}

Components(net) ==
    {net.generators[x] : x \in DOMAIN net.generators}
        \cup {net.loads[x] : x \in DOMAIN net.loads}
        \cup {net.links[x] : x \in DOMAIN net.links}
        \cup {net.storage_units[x] : x \in DOMAIN net.storage_units}

(* C7: the built network contains the components of a device if and only if *)
(* the device is in the selection, and nothing else; an empty selection     *)
(* gives no generator, link or storage unit, and an omitted selection gives *)
(* all ten devices.                                                         *)
C7_SelectionBuilt ==
    pc = "built" =>
        /\ \A d \in Devices :
            IF IsNone(components) \/ d \in components[1]
            THEN Contains(n, d)
            ELSE Lacks(n, d)
        /\ DOMAIN n.generators \subseteq UNION {GeneratorsOf(d) : d \in Devices}
        /\ DOMAIN n.links \subseteq UNION {LinksOf(d) : d \in Devices}
        /\ DOMAIN n.storage_units \subseteq UNION {StorageUnitsOf(d) : d \in Devices}
        /\ components = Some({}) =>
            /\ DOMAIN n.generators = {}
            /\ DOMAIN n.links = {}
            /\ DOMAIN n.storage_units = {}
        /\ IsNone(components) =>
            /\ DOMAIN n.generators = {"grid", "pv"}
            /\ Cardinality(DOMAIN n.links) = 9
            /\ DOMAIN n.storage_units = {"battery", "h2_storage"}

\* C7: a network built from a selection of a generator, a heat pump and a storage unit
C7_Witness ==
    /\ pc = "built"
    /\ components = Some({"grid", "gshp_shallow", "h2_storage"})
    /\ DOMAIN n.links = {"gshp_shallow_heating", "gshp_shallow_cooling"}

(* C8: whatever the selection, build_model creates exactly the buses        *)
(* electricity, heat, cooling and hydrogen, and the loads elec_load,        *)
(* heat_load and cool_load, each on the bus of its carrier; it creates      *)
(* h2_load, on the hydrogen bus, if and only if the configuration record    *)
(* has a hydrogen-demand series.                                            *)
C8_BusesAndLoads ==
    pc = "built" =>
        /\ DOMAIN n.buses = {"electricity", "heat", "cooling", "hydrogen"}
        /\ n.buses["electricity"].carrier = "AC"
        /\ n.buses["heat"].carrier = "heat"
        /\ n.buses["cooling"].carrier = "cooling"
        /\ n.buses["hydrogen"].carrier = "H2"
        /\ {"elec_load", "heat_load", "cool_load"} \subseteq DOMAIN n.loads
        /\ DOMAIN n.loads \subseteq {"elec_load", "heat_load", "cool_load", "h2_load"}
        /\ n.loads["elec_load"].bus = "electricity"
        /\ n.loads["heat_load"].bus = "heat"
        /\ n.loads["cool_load"].bus = "cooling"
        /\ "h2_load" \in DOMAIN n.loads <=> HasKey(data, "h2_load")
        /\ "h2_load" \in DOMAIN n.loads => n.loads["h2_load"].bus = "hydrogen"

\* C8: a network built from a record without hydrogen demand, and no device
C8_Witness ==
    /\ pc = "built"
    /\ ~HasKey(data, "h2_load")
    /\ components = Some({})
    /\ DOMAIN n.loads = {"elec_load", "heat_load", "cool_load"}

(* C9: for each heat-pump family in the selection, build_model creates the  *)
(* two links <name>_heating (electricity to heat) and <name>_cooling        *)
(* (electricity to cooling) with equal p_nom, whatever the configuration    *)
(* record; the capacity in each constraint of the family, read from the     *)
(* heating link, is the p_nom of the cooling link too.                      *)
C9_SharedPNom ==
    pc # "constructed" =>
        /\ \A prefix \in HpPrefixes :
            IF prefix \in AllDevices(components)
            THEN /\ FamilyPresent(n, prefix)
                 /\ n.links[HeatingName(prefix)].bus0 = "electricity"
                 /\ n.links[HeatingName(prefix)].bus1 = "heat"
                 /\ n.links[CoolingName(prefix)].bus0 = "electricity"
                 /\ n.links[CoolingName(prefix)].bus1 = "cooling"
                 /\ n.links[HeatingName(prefix)].p_nom = n.links[CoolingName(prefix)].p_nom
            ELSE LinksOf(prefix) \cap DOMAIN n.links = {}
        /\ \A con \in m.constraints :
            /\ FamilyPresent(n, con.prefix)
            /\ con.name = "capacity_sharing" =>
                   con.rhs = n.links[CoolingName(con.prefix)].p_nom
            /\ con.name = "heating_exclusion" =>
                   con.z = 0 - n.links[CoolingName(con.prefix)].p_nom
            /\ con.name = "cooling_exclusion" =>
                   con.z = n.links[CoolingName(con.prefix)].p_nom

\* C9: the constraints of a family whose record sets its capacity to 0, after a solve
C9_Witness ==
    /\ pc = "returned"
    /\ "gshp_deep" \in AllDevices(components)
    /\ data["ashp_p_nom"] = None
    /\ n.links["gshp_deep_cooling"].p_nom = 0
    /\ \E con \in m.constraints : con.prefix = "gshp_deep" /\ con.rhs = 0

(* C10: every bus a generator, load, link or storage unit refers to is one  *)
(* of the four buses, and the devices are wired as: electric_boiler         *)
(* electricity -> heat; electrolyzer electricity -> hydrogen; fuel_cell     *)
(* hydrogen -> electricity (bus1) and heat (bus2); battery on electricity;  *)
(* h2_storage on hydrogen; grid and pv on electricity.                      *)
C10_Wiring ==
    pc = "built" =>
        /\ \A rec \in Components(n) : BusesOf(rec) \subseteq DOMAIN n.buses
        /\ \A rec \in Components(n) : BusesOf(rec) # {}
        /\ "electric_boiler" \in DOMAIN n.links =>
            /\ n.links["electric_boiler"].bus0 = "electricity"
            /\ n.links["electric_boiler"].bus1 = "heat"
        /\ "electrolyzer" \in DOMAIN n.links =>
            /\ n.links["electrolyzer"].bus0 = "electricity"
            /\ n.links["electrolyzer"].bus1 = "hydrogen"
        /\ "fuel_cell" \in DOMAIN n.links =>
            /\ n.links["fuel_cell"].bus0 = "hydrogen"
            /\ n.links["fuel_cell"].bus1 = "electricity"
            /\ n.links["fuel_cell"].bus2 = "heat"
        /\ "battery" \in DOMAIN n.storage_units =>
            n.storage_units["battery"].bus = "electricity"
        /\ "h2_storage" \in DOMAIN n.storage_units =>
            n.storage_units["h2_storage"].bus = "hydrogen"
        /\ \A g \in DOMAIN n.generators : n.generators[g].bus = "electricity"

\* C10: a network built with every converter, storage unit and generator
C10_Witness ==
    /\ pc = "built"
    /\ {"electric_boiler", "electrolyzer", "fuel_cell"} \subseteq DOMAIN n.links
    /\ DOMAIN n.storage_units = {"battery", "h2_storage"}
    /\ DOMAIN n.generators = {"grid", "pv"}
    /\ ~IsNone(components)

---------------------------------------------------------------------------
(* Properties of the formulated problem *)

\* the binaries and the constraints of one family in the problem
BinariesOf(prefix) == {b \in m.binaries : b.prefix = prefix}

ConstraintsOf(prefix, name) ==
    {con \in m.constraints : con.prefix = prefix /\ con.name = name}

ConstraintNames == {"capacity_sharing", "heating_exclusion", "cooling_exclusion"}

(* C11: the problem formulated in solve() holds binary mode variables if    *)
(* and only if a heat-pump family was selected: each selected family gets   *)
(* exactly one binary per snapshot, with one capacity-sharing and two       *)
(* exclusion constraints per snapshot, and a problem without a selected     *)
(* family gets no binary and no extra constraint.                           *)
C11_BinariesIffFamily ==
    attempts # << >> =>
        /\ \A prefix \in HpPrefixes :
            IF prefix \in AllDevices(components)
            THEN /\ {b.t : b \in BinariesOf(prefix)} = n.snapshots
                 /\ Cardinality(BinariesOf(prefix)) = Cardinality(n.snapshots)
                 /\ \A name \in ConstraintNames :
                     /\ {con.t : con \in ConstraintsOf(prefix, name)} = n.snapshots
                     /\ Cardinality(ConstraintsOf(prefix, name))
                            = Cardinality(n.snapshots)
            ELSE /\ BinariesOf(prefix) = {}
                 /\ \A name \in ConstraintNames : ConstraintsOf(prefix, name) = {}
        /\ \A con \in m.constraints :
            con.name \in ConstraintNames /\ con.prefix \in HpPrefixes
        /\ \A b \in m.binaries : b.prefix \in HpPrefixes
        /\ m.binaries # {} <=> HpPrefixes \cap AllDevices(components) # {}
        /\ HpPrefixes \cap AllDevices(components) = {} => m.constraints = {}

\* C11: a problem formulated for the grid and one heat-pump family
C11_Witness ==
    /\ attempts # << >>
    /\ components = Some({"grid", "ashp"})
    /\ Cardinality(m.binaries) = Cardinality(n.snapshots)
    /\ Cardinality(m.constraints) = 3 * Cardinality(n.snapshots)

---------------------------------------------------------------------------
(* Properties of the export step *)

(* C17: after a solve that reports success, the result extraction of the    *)
(* export step (model.get_all_results()) yields the result set, so the      *)
(* export step ends with the download offered and not with the failed       *)
(* export reported.                                                         *)
C17_DownloadOffered ==
    pc \in {"download_offered", "export_failed"} => pc = "download_offered"

---------------------------------------------------------------------------
(* Properties of the configuration checks *)

\* the series a record may supply, one value per snapshot
SeriesKeys == {"elec_load", "heat_load", "cool_load", "h2_load", "pv_pu", "grid_cost"}

(* a parameter that is read for the selection c, has no default and is      *)
(* missing in d: the three demand series, which are read whatever the       *)
(* selection, and the series of the two generators when they are selected   *)
MissingParameter(d, c) ==
    \/ \E k \in {"elec_load", "heat_load", "cool_load"} : ~HasKey(d, k)
    \/ (IsNone(c) \/ "grid" \in c[1]) /\ ~HasKey(d, "grid_cost")
    \/ (IsNone(c) \/ "pv" \in c[1]) /\ ~HasKey(d, "pv_pu")

\* a series that is supplied with a length other than the horizon
WrongLength(d) ==
    \E k \in SeriesKeys : HasKey(d, k) /\ Len(d[k][1]) # DataGet(d, "hours", 24)

(* C12: build_model rejects an invalid configuration record with a          *)
(* ConfigurationError, before any solve attempt is made: a record that      *)
(* lacks a parameter read for the selection and without a default, or that  *)
(* supplies a series whose length is not the horizon.                       *)
C12_InvalidRejected ==
    (pc # "constructed" /\ (MissingParameter(data, components) \/ WrongLength(data))) =>
        /\ pc = "build_raised"
        /\ exc = Some("ConfigurationError")
        /\ attempts = << >>

---------------------------------------------------------------------------
(* Properties of the shipped records *)

(* C14: for every generator that build_model instantiates from a shipped    *)
(* configuration record, and every snapshot t, the availability p_max_pu[t] *)
(* lies in [0, 1], so that the bound p_nom * p_max_pu[t] of the generator's *)
(* output never exceeds p_nom.                                              *)
C14_AvailabilityFraction ==
    pc = "built" =>
        \A g \in DOMAIN n.generators : \A t \in n.snapshots :
            /\ 0 <= n.generators[g].p_max_pu[t + 1]
            /\ n.generators[g].p_max_pu[t + 1] <= Unit.pu

---------------------------------------------------------------------------
(* Properties of the dispatch *)

\* the points of the accepted dispatch
Accepted == IF IsNone(sol) THEN << >> ELSE sol[1]

\* what the accepted dispatch gives a variable of snapshot k - 1; 0 for a device that was not built
Value(k, f, name) ==
    IF name \in DOMAIN Accepted[k][f] THEN Accepted[k][f][name] ELSE 0

\* the demand of a series of the record at snapshot k - 1; 0 for a series that is not supplied
Demand(key, k) == IF HasKey(data, key) THEN data[key][1][k] ELSE 0

\* the capacity the configuration gives a link or a storage unit
ConfiguredPNom(name) ==
    CASE name = "electric_boiler" -> DataGet(data, "boiler_p_nom", DefaultBoilerPNom)
      [] name \in {"ashp_heating", "ashp_cooling"} -> DataGet(data, "ashp_p_nom", DefaultHpPNom)
      [] name \in {"gshp_shallow_heating", "gshp_shallow_cooling"} ->
             DataGet(data, "gshp_shallow_p_nom", DefaultHpPNom)
      [] name \in {"gshp_deep_heating", "gshp_deep_cooling"} ->
             DataGet(data, "gshp_deep_p_nom", DefaultHpPNom)
      [] name = "electrolyzer" -> DataGet(data, "ely_p_nom", DefaultElyPNom)
      [] name = "fuel_cell" -> DataGet(data, "fc_p_nom", DefaultFcPNom)
      [] name = "battery" -> DataGet(data, "bat_p_nom", DefaultBatPNom)
      [] name = "h2_storage" -> DataGet(data, "h2s_p_nom", DefaultH2sPNom)
      [] name = "pv" -> DataGet(data, "pv_p_nom", DefaultPvPNom)

\* the capacity of a component is a number of the configuration, closed to the optimizer
FixedCapacity(tbl, name) ==
    ~tbl[name].p_nom_extendable /\ tbl[name].p_nom = ConfiguredPNom(name)

\* the accepted dispatch keeps a generator within p_nom * p_max_pu at every snapshot
WithinCapacity(g) ==
    \A k \in 1 .. Len(Accepted) :
        Accepted[k].g[g] * Unit.pu <= n.generators[g].p_nom * n.generators[g].p_max_pu[k]

(* C13, as stated: no generator, link or storage unit has its capacity      *)
(* sized by the optimizer, and the output of every generator is at most its *)
(* p_nom times its availability at every snapshot.                          *)
C13_FixedCapacities ==
    pc # "constructed" =>
        /\ \A g \in DOMAIN n.generators :
            ~n.generators[g].p_nom_extendable /\ WithinCapacity(g)
        /\ \A l \in DOMAIN n.links : ~n.links[l].p_nom_extendable
        /\ \A u \in DOMAIN n.storage_units : ~n.storage_units[u].p_nom_extendable

(* C13, amended: every link, every storage unit and the generator pv have   *)
(* a fixed capacity, the number of the configuration or its default, and    *)
(* the output of pv is at most p_nom times its availability at every        *)
(* snapshot; the generator grid is given no capacity: it is extendable, and *)
(* its output has no bound but the capacity the optimizer gives it.         *)
C13_FixedExceptGrid ==
    pc # "constructed" =>
        /\ DOMAIN n.generators \subseteq {"grid", "pv"}
        /\ "pv" \in DOMAIN n.generators =>
            FixedCapacity(n.generators, "pv") /\ WithinCapacity("pv")
        /\ "grid" \in DOMAIN n.generators =>
            n.generators["grid"].p_nom_extendable /\ n.generators["grid"].p_nom = 0
        /\ \A l \in DOMAIN n.links : FixedCapacity(n.links, l)
        /\ \A u \in DOMAIN n.storage_units : FixedCapacity(n.storage_units, u)

\* C13: an accepted dispatch in which pv yields its whole capacity to the boiler
C13_Witness ==
    /\ ~IsNone(sol)
    /\ components = Some({"pv", "electric_boiler"})
    /\ Value(1, "g", "pv") > 0
    /\ Value(1, "g", "pv") * Unit.pu = n.generators["pv"].p_nom * n.generators["pv"].p_max_pu[1]
    /\ Value(1, "p", "electric_boiler") > 0

\* what a storage unit gains over a dispatch, multiplied through by efficiency_dispatch
NetCharge(unit, xs, u) ==
    Sum([k \in 1 .. Len(xs) |->
            unit.efficiency_store * unit.efficiency_dispatch * xs[k].store[u]
            - Unit.efficiency * Unit.efficiency * xs[k].dispatch[u]])

(* the state of charge at the start of snapshot 0, as the dispatch of       *)
(* snapshot 0 implies it, is the state of charge after the last snapshot    *)
Wraps(unit, xs, u) ==
    Unit.efficiency * unit.efficiency_dispatch * (xs[1].soc[u] - xs[Len(xs)].soc[u])
        = unit.efficiency_store * unit.efficiency_dispatch * xs[1].store[u]
            - Unit.efficiency * Unit.efficiency * xs[1].dispatch[u]

Eff(key, default) == DataGet(data, key, default)

\* the input flows of the heat pumps at snapshot k - 1
HeatPumpInput(k) ==
    Sum([prefix \in HpPrefixes |->
            Value(k, "p", HeatingName(prefix)) + Value(k, "p", CoolingName(prefix))])

ElectricityBalanced(k) ==
    Unit.efficiency * (Value(k, "g", "grid") + Value(k, "g", "pv")
                           + Value(k, "dispatch", "battery"))
        + Eff("fc_eff_elec", DefaultFcEffElec) * Value(k, "p", "fuel_cell")
    = Unit.efficiency * (Demand("elec_load", k) + Value(k, "p", "electric_boiler")
                             + HeatPumpInput(k) + Value(k, "p", "electrolyzer")
                             + Value(k, "store", "battery"))

HeatBalanced(k) ==
    Eff("boiler_eff", DefaultBoilerEff) * Value(k, "p", "electric_boiler")
        + Sum([prefix \in HpPrefixes |->
                  Eff(EffKey(prefix), DefaultHpEff) * Value(k, "p", HeatingName(prefix))])
        + Eff("fc_eff_heat", DefaultFcEffHeat) * Value(k, "p", "fuel_cell")
    = Unit.efficiency * Demand("heat_load", k)

CoolingBalanced(k) ==
    Sum([prefix \in HpPrefixes |->
            Eff(EerKey(prefix), DefaultHpEer) * Value(k, "p", CoolingName(prefix))])
    = Unit.efficiency * Demand("cool_load", k)

HydrogenBalanced(k) ==
    Eff("ely_eff", DefaultElyEff) * Value(k, "p", "electrolyzer")
        + Unit.efficiency * Value(k, "dispatch", "h2_storage")
    = Unit.efficiency * (Demand("h2_load", k) + Value(k, "p", "fuel_cell")
                             + Value(k, "store", "h2_storage"))

\* the devices that can deliver to a bus
Injectors(bus) ==
    CASE bus = "electricity" -> {"grid", "pv", "fuel_cell", "battery"}
      [] bus = "heat" -> {"electric_boiler", "fuel_cell"} \cup HpPrefixes
      [] bus = "cooling" -> HpPrefixes
      [] bus = "hydrogen" -> {"electrolyzer", "h2_storage"}

\* the demand series of a bus
DemandKey(bus) ==
    CASE bus = "electricity" -> "elec_load"
      [] bus = "heat" -> "heat_load"
      [] bus = "cooling" -> "cool_load"
      [] bus = "hydrogen" -> "h2_load"

\* the devices build_model was asked for
Selected == IF IsNone(components) THEN Devices ELSE components[1]

\* a bus with a positive demand at some snapshot and no selected device that delivers to it
Unserved(bus) ==
    /\ Injectors(bus) \cap Selected = {}
    /\ \E k \in 1 .. Cardinality(n.snapshots) : Demand(DemandKey(bus), k) > 0

(* C16: in a dispatch accepted as optimal, at every bus and every snapshot, *)
(* what generators, link outputs (input times the efficiency of the output  *)
(* bus) and storage discharge deliver equals what demand, link inputs and   *)
(* storage charge draw; and when a bus has a positive demand and no         *)
(* selected device that delivers to it, no dispatch is accepted: the        *)
(* backend reports no optimum.                                              *)
C16_BusBalance ==
    attempts # << >> =>
        /\ \A k \in 1 .. Len(Accepted) :
            /\ ElectricityBalanced(k)
            /\ HeatBalanced(k)
            /\ CoolingBalanced(k)
            /\ HydrogenBalanced(k)
        /\ (\E bus \in {"electricity", "heat", "cooling", "hydrogen"} : Unserved(bus)) =>
            /\ IsNone(sol)
            /\ \A k \in 1 .. Len(attempts) : attempts[k].outcome # "ok"

\* C16: an accepted dispatch in which the grid feeds the boiler, which serves the heat demand
C16_Witness ==
    /\ attempts # << >>
    /\ ~IsNone(sol)
    /\ components = Some({"grid", "electric_boiler"})
    /\ Demand("heat_load", 1) > 0
    /\ Value(1, "p", "electric_boiler") > 0
    /\ Value(1, "g", "grid") > Demand("elec_load", 1)

---------------------------------------------------------------------------
(* Selection monotonicity *)

\* the network build_model makes of the record for the selection S
NetworkOf(S) == BuildNetwork(NewNetwork(data), data, Some(S), "lenient").net

\* the feasible dispatches of the problem built from the selection S
FeasibleOf(S) == FeasibleDispatches(NetworkOf(S), ExtraFunctionality(NetworkOf(S)))

\* the optimal objective value of the problem built from S, which is feasible
OptimumOf(S) == Least({Cost(NetworkOf(S), xs) : xs \in FeasibleOf(S)})

(* C18: for a record and two selections S and S' = S plus one device d, if  *)
(* the problem built from S is feasible then the problem built from S' is   *)
(* feasible and its optimal objective value is at most that of S. Stated on *)
(* a run for the selection S' whose loop is over: for every device d of S', *)
(* if the selection without d has a feasible dispatch, then the run         *)
(* accepted a dispatch, and its cost is at most the optimum without d.      *)
C18_SelectionMonotone ==
    (pc = "check" /\ ~IsNone(components)) =>
        \A d \in components[1] :
            FeasibleOf(components[1] \ {d}) # {} =>
                /\ ~IsNone(sol)
                /\ Cost(n, sol[1]) <= OptimumOf(components[1] \ {d})

(* A run whose selection is a feasible selection plus a heat-pump family:   *)
(* the family has its mode variables, and the accepted dispatch serves the  *)
(* heat demand through the heating link of the family.                      *)
C18_Witness ==
    /\ pc = "check" /\ ~IsNone(components) /\ ~IsNone(sol)
    /\ \E d \in components[1] \cap HpPrefixes :
        /\ FeasibleOf(components[1] \ {d}) # {}
        /\ BinariesOf(d) # {}
        /\ \E k \in 1 .. Len(sol[1]) :
            /\ Demand("heat_load", k) > 0
            /\ sol[1][k].p[HeatingName(d)] > 0

====
